---- MODULE Spec2Model ----
(***************************************************************************)
(* A model of src/main.py: the interactive driver of the avatar upload /    *)
(* measurement download workflow, as a sequential state machine.  One step  *)
(* of the machine is one blocking point of the script: a prompt, the load   *)
(* of the subject, or one remote call together with the code that handles  *)
(* its response up to the next remote call.                                 *)
(*                                                                         *)
(* Strings the code transforms (str.lower) are sequences of one-character  *)
(* strings; JSON values are tagged records; numbers are integers counting  *)
(* thousandths, so that round(x, 2) really rounds.                          *)
(***************************************************************************)
EXTENDS Integers, Sequences, FiniteSets, TLC

\* ------------------------------------------------------------- bounds
\* Image files of each extension present in the subject directory: 0..MaxPerExt.
MaxPerExt == 2
\* Runs of the script against the same data directory.
MaxRuns == 2
\* Length of the generated gender strings of SpecLoad.
MaxGenderLen == 4

\* ---------------------------------------------------- program constants
\* image_files[:4]
MaxImagesUsed == 4
\* value * 2.20462, as an integer number of 1e-5
LbsPerKgE5 == 220462
\* value / 2.54, as an integer number of 1e-2
CmPerInchE2 == 254

\* ------------------------------------------------------------ strings
UpperToLower ==
  [c \in {"A","B","C","D","E","F","G","H","I","J","K","L","M","N","O","P","Q",
          "R","S","T","U","V","W","X","Y","Z"} |->
     CASE c = "A" -> "a" [] c = "B" -> "b" [] c = "C" -> "c" [] c = "D" -> "d"
       [] c = "E" -> "e" [] c = "F" -> "f" [] c = "G" -> "g" [] c = "H" -> "h"
       [] c = "I" -> "i" [] c = "J" -> "j" [] c = "K" -> "k" [] c = "L" -> "l"
       [] c = "M" -> "m" [] c = "N" -> "n" [] c = "O" -> "o" [] c = "P" -> "p"
       [] c = "Q" -> "q" [] c = "R" -> "r" [] c = "S" -> "s" [] c = "T" -> "t"
       [] c = "U" -> "u" [] c = "V" -> "v" [] c = "W" -> "w" [] c = "X" -> "x"
       [] c = "Y" -> "y" [] c = "Z" -> "z"]

\* str.lower() on one character: only upper-case letters change.
LowerChar(c) == IF c \in DOMAIN UpperToLower THEN UpperToLower[c] ELSE c

\* str.lower(): no character is removed, so surrounding blanks stay.
Lower(s) == [i \in 1..Len(s) |-> LowerChar(s[i])]

S_female == <<"f","e","m","a","l","e">>
S_male == <<"m","a","l","e">>
S_neutral == <<"n","e","u","t","r","a","l">>
S_weight == <<"w","e","i","g","h","t">>

\* valid_genders = ["female", "male", "neutral"]
valid_genders == {S_female, S_male, S_neutral}

\* -------------------------------------------------------- JSON values
JStr(s) == [t |-> "str", s |-> s]
JNull == [t |-> "null"]
JNum(m) == [t |-> "num", m |-> m]
JBool(b) == [t |-> "bool", b |-> b]
JId(n) == [t |-> "id", n |-> n]

\* A dict with no key.
EmptyDict == [k \in {} |-> JNull]

\* d[k] = v on a dict.
DictSet(d, k, v) == [x \in (DOMAIN d) \cup {k} |-> IF x = k THEN v ELSE d[x]]

\* Marks a key that the file does not hold (an input of Init, never a value).
Absent == [t |-> "absent"]

\* The avatar.json object with the given gender and avatar_id (Absent: no key).
MkMeta(g, i) ==
  LET d1 == IF g = Absent THEN EmptyDict ELSE DictSet(EmptyDict, "gender", g)
  IN  IF i = Absent THEN d1 ELSE DictSet(d1, "avatar_id", i)


\* ------------------------------------------------------------- state
VARIABLES
  env_ok,             \* USERNAME and PASSWORD are both set (.env / environment)
  avatar_json,        \* data/<subject>/avatar.json on disk
  measurements_json,  \* data/<subject>/measurements.json on disk
  dir,                \* how many *.jpg, *.jpeg, *.png the subject directory holds
  remote,             \* per avatar id, how far its upload got on the service
  run,                \* which run of the script this is
  pc,                 \* where the script is
  retval,             \* how the run ended
  printed_error,      \* the exception printed with the error marker, or "none"
  warned,             \* the loader printed its gender warning
  subjects,           \* main: subjects
  avatar_data,        \* main: avatar_data (the loaded and normalised metadata)
  image_files,        \* main: image_files
  has_avatar_id,      \* main: has_avatar_id
  valid_choices,      \* main: valid_choices
  action,             \* main: action
  avatar_id,          \* the avatar id in use (created or stored), -1 before
  idx,                \* upload_images: position in image_files
  calls,              \* the remote calls of this run, in order, with their outcome
  reads,              \* reads of avatar.json in this run
  writes,             \* writes of avatar.json in this run
  mwrites,            \* writes of measurements.json in this run
  success,            \* download_measurements' return value, "none" before
  avatar_json0,       \* avatar.json as it was when this run started
  measurements_json0  \* measurements.json as it was when this run started

vars == <<env_ok, avatar_json, measurements_json, dir, remote, run, pc, retval,
          printed_error, warned, subjects, avatar_data, image_files,
          has_avatar_id, valid_choices, action, avatar_id, idx, calls, reads,
          writes, mwrites, success, avatar_json0, measurements_json0>>

\* What a run leaves alone unless it says otherwise.
world == <<env_ok, dir, run, avatar_json0, measurements_json0>>
disk == <<avatar_json, measurements_json, writes, mwrites>>
loaded == <<subjects, avatar_data, image_files, has_avatar_id, valid_choices,
            warned, reads>>

NoImage == <<"none", 0>>

\* One remote call as the run saw it: r is "ok" (2xx, usable body), "http_error"
\* (raise_for_status raised) or "bad_body" (2xx, the expected field is missing).
\* id is the avatar id the request names (-1: none), body its JSON payload.
\* resp is what the run read of the response, for the one call whose body decides
\* anything (the GET of the avatar).
Call(op, id, img, r, body) ==
  [op |-> op, id |-> id, img |-> img, r |-> r, body |-> body, resp |-> [t |-> "absent"]]
GetCall(id, r, resp) ==
  [op |-> "get", id |-> id, img |-> NoImage, r |-> r, body |-> [k \in {} |-> 0],
   resp |-> resp]

\* ------------------------------------------------------------ inputs
FileAbsent == [t |-> "absent"]
FileObj(d) == [t |-> "obj", d |-> d]

Str_Male == <<"M","a","l","e">>
Str_FEMALE == <<"F","E","M","A","L","E">>
Str_neutral_padded == <<" ","n","e","u","t","r","a","l"," ">>
Str_other == <<"o","t","h","e","r">>

\* The gender values of the workflow specification: missing, not a string,
\* valid in another case, valid, padded, unknown.
GenderInputs ==
  {Absent, JNull, JStr(Str_Male), JStr(S_female), JStr(Str_neutral_padded),
   JStr(Str_other)}

\* avatar.json as the operator may have left it before a run.
AvatarJsonInputs ==
  {[t |-> "nodir"], FileAbsent, [t |-> "malformed"]}
  \cup {FileObj(MkMeta(g, i)) : g \in GenderInputs, i \in {Absent, JId(0)}}

DirInputs == [jpg : 0..MaxPerExt, jpeg : 0..MaxPerExt, png : 0..MaxPerExt]

\* What the operator may type at a prompt.
PromptInputs == {"0", "1", "2", "3", "x"}

IsNumber(s) == s \in {"0", "1", "2", "3"}
IntOf(s) == CASE s = "0" -> 0 [] s = "1" -> 1 [] s = "2" -> 2 [] s = "3" -> 3

\* The state every run starts in.
RunStart ==
  /\ pc = "import" /\ retval = "running" /\ printed_error = "none"
  /\ warned = FALSE /\ subjects = <<>> /\ avatar_data = EmptyDict
  /\ image_files = <<>> /\ has_avatar_id = FALSE /\ valid_choices = {}
  /\ action = 0 /\ avatar_id = -1 /\ idx = 0 /\ calls = <<>>
  /\ reads = 0 /\ writes = 0 /\ mwrites = 0 /\ success = "none"

Init ==
  /\ env_ok \in BOOLEAN
  /\ avatar_json \in AvatarJsonInputs
  /\ measurements_json = FileAbsent
  /\ dir \in DirInputs
  /\ remote = [i \in 0..MaxRuns |-> IF i = 0 THEN "FITTING_STARTED" ELSE "NONE"]
  /\ run = 1
  /\ avatar_json0 = avatar_json
  /\ measurements_json0 = measurements_json
  /\ RunStart

\* ------------------------------------------------- the top-level handler
\* A mutant of Caught: the exception escapes main, nothing is printed.
CaughtEscapes(e) == pc' = "exit" /\ retval' = "uncaught" /\ printed_error' = "none"

\* An exception raised inside main's try: printed with the marker, return 1.
Caught(e) == pc' = "exit" /\ retval' = "1" /\ printed_error' = e

\* main returns without an error (falls off the end, or "return").
Returned == pc' = "exit" /\ retval' = "none" /\ printed_error' = "none"

\* Running on: nothing printed by the handler.
Goto(l) == pc' = l /\ UNCHANGED <<retval, printed_error>>

\* ------------------------------------------------------------ startup
\* Lines 10-18 and 329-330: the module-level credential check runs before main
\* is called, outside main's try.
ModuleInit ==
  /\ pc = "import"
  /\ IF env_ok
       THEN Goto("scan")
       ELSE pc' = "exit" /\ retval' = "uncaught" /\ printed_error' = "none"
  /\ UNCHANGED <<world, disk, loaded, remote, action, avatar_id, idx, calls,
                 success>>

\* get_available_subjects and main's "no subjects" return.
GetAvailableSubjects ==
  /\ pc = "scan"
  /\ IF avatar_json.t = "nodir"
       THEN Caught("FileNotFoundError") /\ UNCHANGED subjects
       ELSE IF avatar_json.t = "absent"
         THEN Returned /\ subjects' = <<>>
         ELSE Goto("select") /\ subjects' = <<"subject">>
  /\ UNCHANGED <<world, disk, remote, avatar_data, image_files, has_avatar_id,
                 valid_choices, warned, reads, action, avatar_id, idx, calls,
                 success>>

\* The subject prompt: re-prompts on anything but a number in 1..len(subjects).
SelectSubject ==
  /\ pc = "select"
  /\ \E typed \in PromptInputs :
       IF IsNumber(typed) /\ 0 <= IntOf(typed) - 1 /\ IntOf(typed) - 1 < Len(subjects)
         THEN Goto("load")
         ELSE UNCHANGED <<pc, retval, printed_error>>
  /\ UNCHANGED <<world, disk, loaded, remote, action, avatar_id, idx, calls,
                 success>>


\* ------------------------------------------------------- subject loader
\* A mutant of NormalizeGender: compares the gender without lower-casing it.
NormalizeGenderCaseSensitive(d) ==
  LET g == IF "gender" \in DOMAIN d THEN d["gender"] ELSE JStr(S_neutral)
  IN  IF g.t # "str"
        THEN [raised |-> TRUE, gender |-> S_neutral, warned |-> FALSE]
        ELSE IF g.s \notin valid_genders
          THEN [raised |-> FALSE, gender |-> S_neutral, warned |-> TRUE]
          ELSE [raised |-> FALSE, gender |-> g.s, warned |-> FALSE]

\* Lines 70-78. avatar_data.get("gender", "neutral").lower(): a missing key takes
\* the default "neutral", which is valid, so nothing is printed; a value that is
\* no string has no .lower and raises AttributeError.
NormalizeGender(d) ==
  LET g == IF "gender" \in DOMAIN d THEN d["gender"] ELSE JStr(S_neutral)
  IN  IF g.t # "str"
        THEN [raised |-> TRUE, gender |-> S_neutral, warned |-> FALSE]
        ELSE LET gender == Lower(g.s)
             IN  IF gender \notin valid_genders
                   THEN [raised |-> FALSE, gender |-> S_neutral, warned |-> TRUE]
                   ELSE [raised |-> FALSE, gender |-> gender, warned |-> FALSE]

\* subject_dir.glob("*." + ext): the files of one extension, in the order the
\* directory lists them (file <<ext, i>> is the i-th listed of its extension).
Glob(d, ext) == [i \in 1..d[ext] |-> <<ext, i>>]

\* A mutant of FindImages: no limit of 4.
FindImagesNoLimit(d) == Glob(d, "jpg") \o Glob(d, "jpeg") \o Glob(d, "png")

\* Lines 80-86: all jpg, then all jpeg, then all png, cut to the first 4.
FindImages(d) ==
  LET all == Glob(d, "jpg") \o Glob(d, "jpeg") \o Glob(d, "png")
  IN  SubSeq(all, 1, IF Len(all) < MaxImagesUsed THEN Len(all) ELSE MaxImagesUsed)

\* A mutant of MenuChoices: download is offered whether or not an id is stored.
MenuChoicesAlwaysBoth(has_id) == {1, 2}

\* Lines 285-291.
MenuChoices(has_id) == IF has_id THEN {1, 2} ELSE {1}

\* load_subject_data (62-88) and main up to the action prompt (276-291).
LoadSubjectData ==
  /\ pc = "load"
  /\ reads' = reads + 1
  /\ IF avatar_json.t # "obj"
       THEN /\ Caught("JSONDecodeError")
            /\ UNCHANGED <<avatar_data, image_files, has_avatar_id, valid_choices,
                           warned>>
       ELSE LET n == NormalizeGender(avatar_json.d)
            IN  IF n.raised
                  THEN /\ Caught("AttributeError")
                       /\ UNCHANGED <<avatar_data, image_files, has_avatar_id,
                                      valid_choices, warned>>
                  ELSE /\ Goto("menu")
                       /\ warned' = n.warned
                       /\ avatar_data' = DictSet(avatar_json.d, "gender", JStr(n.gender))
                       /\ image_files' = FindImages(dir)
                       /\ has_avatar_id' = ("avatar_id" \in DOMAIN avatar_json.d)
                       /\ valid_choices' = MenuChoices("avatar_id" \in DOMAIN avatar_json.d)
  /\ UNCHANGED <<world, disk, remote, subjects, action, avatar_id, idx, calls,
                 success>>

\* The action prompt (293-303): re-prompts until the number is a valid choice.
SelectAction ==
  /\ pc = "menu"
  /\ \E typed \in PromptInputs :
       IF IsNumber(typed) /\ IntOf(typed) \in valid_choices
         THEN Goto("auth") /\ action' = IntOf(typed)
         ELSE UNCHANGED <<pc, retval, printed_error, action>>
  /\ UNCHANGED <<world, disk, loaded, remote, avatar_id, idx, calls, success>>

\* Line 311.
DispatchDownload(has_id, act) == has_id /\ act = 1

\* authenticate (21-37, 305-308) and the dispatch of lines 311-321.
Authenticate ==
  /\ pc = "auth"
  /\ \E r \in {"ok", "http_error", "bad_body"} :
       /\ calls' = Append(calls, Call("auth", -1, NoImage, r, EmptyDict))
       /\ IF r = "http_error"
            THEN Caught("HTTPError") /\ UNCHANGED avatar_id
            ELSE IF r = "bad_body"
              THEN Caught("KeyError") /\ UNCHANGED avatar_id
              ELSE IF DispatchDownload(has_avatar_id, action)
                THEN Goto("get") /\ avatar_id' = avatar_data["avatar_id"].n
                ELSE Goto("create") /\ UNCHANGED avatar_id
  /\ UNCHANGED <<world, disk, loaded, remote, action, idx, success>>


\* ------------------------------------------------------ avatar uploader
\* The id the service gives the avatar it creates: a new one each time.
NewAvatarId == run

\* A mutant of SaveAvatarId: the id is kept in memory only.
SaveAvatarIdNotWritten(data, id) ==
  /\ avatar_data' = DictSet(data, "avatar_id", JId(id))
  /\ UNCHANGED <<avatar_json, writes>>

\* Lines 229-235: avatar_data["avatar_id"] = avatar_id, json.dump to avatar.json.
SaveAvatarId(data, id) ==
  /\ avatar_data' = DictSet(data, "avatar_id", JId(id))
  /\ avatar_json' = FileObj(DictSet(data, "avatar_id", JId(id)))
  /\ writes' = writes + 1

\* A mutant of CreateAvatar: avatar.json is rewritten before the response is
\* checked, so also when the creation failed.
CreateAvatarSavesFirst ==
  /\ pc = "create"
  /\ \E r \in {"ok", "http_error", "bad_body"} :
       /\ calls' = Append(calls, Call("create", -1, NoImage, r, EmptyDict))
       /\ SaveAvatarId(avatar_data, NewAvatarId)
       /\ IF r = "ok"
            THEN /\ Goto("images")
                 /\ avatar_id' = NewAvatarId
                 /\ idx' = 1
                 /\ remote' = [remote EXCEPT ![NewAvatarId] = "CREATED"]
            ELSE /\ Caught(IF r = "http_error" THEN "HTTPError" ELSE "KeyError")
                 /\ UNCHANGED <<avatar_id, idx, remote>>
  /\ UNCHANGED <<world, measurements_json, mwrites, subjects, image_files,
                 has_avatar_id, valid_choices, warned, reads, action, success>>

\* create_avatar (91-99) and upload_avatar up to the call of upload_images
\* (224-239): on success the id is saved to avatar.json at once.
CreateAvatar ==
  /\ pc = "create"
  /\ \E r \in {"ok", "http_error", "bad_body"} :
       /\ calls' = Append(calls, Call("create", -1, NoImage, r, EmptyDict))
       /\ IF r = "ok"
            THEN /\ Goto("images")
                 /\ avatar_id' = NewAvatarId
                 /\ idx' = 1
                 /\ remote' = [remote EXCEPT ![NewAvatarId] = "CREATED"]
                 /\ SaveAvatarId(avatar_data, NewAvatarId)
            ELSE /\ Caught(IF r = "http_error" THEN "HTTPError" ELSE "KeyError")
                 /\ UNCHANGED <<avatar_id, idx, remote, avatar_data, avatar_json,
                                writes>>
  /\ UNCHANGED <<world, measurements_json, mwrites, subjects, image_files,
                 has_avatar_id, valid_choices, warned, reads, action, success>>

\* Line 106, the head of upload_images' loop: the next image, or, the list
\* exhausted, back in upload_avatar before start_fitting (240-244).
UploadImagesLoop ==
  /\ pc = "images"
  /\ IF idx <= Len(image_files)
       THEN Goto("slot") /\ UNCHANGED remote
       ELSE Goto("fit") /\ remote' = [remote EXCEPT ![avatar_id] = "IMAGES_UPLOADED"]
  /\ UNCHANGED <<world, disk, loaded, action, avatar_id, idx, calls, success>>

\* A mutant of AfterSlot: the bytes are not sent, the loop goes on.
AfterSlotSkipsPut == Goto("images") /\ idx' = idx + 1

\* Lines 114-126: with the presigned URL, on to the PUT of this image.
AfterSlot == Goto("put") /\ UNCHANGED idx

\* Lines 109-114: POST /avatars/{id}/images for the presigned upload URL.
RequestUploadSlot ==
  /\ pc = "slot"
  /\ \E r \in {"ok", "http_error", "bad_body"} :
       /\ calls' = Append(calls, Call("slot", avatar_id, image_files[idx], r, EmptyDict))
       /\ IF r = "ok"
            THEN AfterSlot
            ELSE /\ Caught(IF r = "http_error" THEN "HTTPError" ELSE "KeyError")
                 /\ UNCHANGED idx
  /\ UNCHANGED <<world, disk, loaded, remote, action, avatar_id, success>>

\* A mutant of PutFailed: a failed PUT is ignored and the loop goes on.
PutFailedIgnored == Goto("images") /\ idx' = idx + 1

\* Line 127: raise_for_status on the PUT's response.
PutFailed == Caught("HTTPError") /\ UNCHANGED idx

\* Lines 116-127: PUT of the image's bytes to the presigned URL.
PutImage ==
  /\ pc = "put"
  /\ \E r \in {"ok", "http_error"} :
       /\ calls' = Append(calls, Call("put", avatar_id, image_files[idx], r, EmptyDict))
       /\ IF r = "ok"
            THEN Goto("images") /\ idx' = idx + 1
            ELSE PutFailed
  /\ UNCHANGED <<world, disk, loaded, remote, action, avatar_id, success>>

\* Lines 137-147: the fitting request's JSON body.
FittingPayload(data) ==
  LET base == DictSet(DictSet(DictSet(EmptyDict, "avatarname", JStr(<<"subject">>)),
                              "gender", data["gender"]),
                      "imageMode", JStr(<<"A","F","I">>))
      h == IF "height" \in DOMAIN data THEN DictSet(base, "height", data["height"])
           ELSE base
  IN  IF "weight" \in DOMAIN data THEN DictSet(h, "weight", data["weight"]) ELSE h

\* start_fitting (130-150) and the end of upload_avatar and main (245, 322).
StartFitting ==
  /\ pc = "fit"
  /\ \E r \in {"ok", "http_error"} :
       /\ calls' = Append(calls, Call("fit", avatar_id, NoImage, r,
                                      FittingPayload(avatar_data)))
       /\ IF r = "ok"
            THEN Returned /\ remote' = [remote EXCEPT ![avatar_id] = "FITTING_STARTED"]
            ELSE Caught("HTTPError") /\ UNCHANGED remote
  /\ UNCHANGED <<world, disk, loaded, action, avatar_id, idx, success>>

\* -------------------------------------------------- measurement downloader
\* The integer nearest to f + r / q (0 <= r < q), a tie going to the even one:
\* Python's round.
NearestEven(f, r, q) ==
  IF 2 * r < q THEN f
  ELSE IF 2 * r > q THEN f + 1
  ELSE IF f % 2 = 0 THEN f ELSE f + 1

\* p / q rounded to an integer.
RoundHalfEven(p, q) == NearestEven(p \div q, p % q, q)

\* m * c / 1000000 rounded to an integer, the product taken in two halves so
\* that it stays within 32 bits.
RoundMillionth(m, c) ==
  LET A == m * (c \div 1000)
      lo == (A % 1000) * 1000 + m * (c % 1000)
  IN  NearestEven((A \div 1000) + (lo \div 1000000), lo % 1000000, 1000000)

\* isinstance(value, (int, float)): bool is a subclass of int.
IsNumeric(v) == v.t \in {"num", "bool"}

\* The number a numeric value stands for, in thousandths.
NumOf(v) == IF v.t = "bool" THEN (IF v.b THEN 1000 ELSE 0) ELSE v.m

\* round(value, 2), in thousandths.
Round2(m) == 10 * RoundHalfEven(m, 10)

\* round(value * 2.20462, 2), in thousandths.
Lbs(m) == 10 * RoundMillionth(m, LbsPerKgE5)

\* round(value / 2.54, 2), in thousandths.
Inches(m) == 10 * RoundHalfEven(m * 10, CmPerInchE2)

\* A mutant of IsWeight: the name is compared as it is.
IsWeightCaseSensitive(name) == name = S_weight

\* measurement_name.lower() == "weight"
IsWeight(name) == Lower(name) = S_weight

\* Lines 181-200, one entry of the measurement map.
ProcessMeasurement(name, v) ==
  IF IsNumeric(v)
    THEN IF IsWeight(name)
           THEN FileObj([kg |-> JNum(Round2(NumOf(v))), lbs |-> JNum(Lbs(NumOf(v)))])
           ELSE FileObj([cm |-> JNum(Round2(NumOf(v))), in |-> JNum(Inches(NumOf(v)))])
    ELSE v

\* Lines 179-200.
ProcessMeasurements(raw) == [name \in DOMAIN raw |-> ProcessMeasurement(name, raw[name])]

\* "if raw_measurements": a missing key gives {}, which like None is falsy.
Truthy(mm) == ~(mm = Absent \/ mm = JNull \/ (mm.t = "obj" /\ DOMAIN mm.d = {}))

\* A mutant of IsReady: any state counts as ready.
IsReadyAlways(state) == TRUE

\* Line 165.
IsReady(state) == state = "READY"

\* download_measurements (153-217) and main's report of it (314-318).  body is
\* the response's data.attributes: its state and its
\* metadata.bodyShape.mesh_measurements (Absent: the key is missing).
DownloadMeasurements(Bodies) ==
  /\ pc = "get"
  /\ \E r \in {"ok", "http_error"}, body \in Bodies :
       /\ calls' = Append(calls, GetCall(avatar_id, r, IF r = "ok" THEN body ELSE Absent))
       /\ IF r = "http_error"
            THEN Caught("HTTPError") /\ UNCHANGED <<measurements_json, mwrites, success>>
            ELSE IF IsReady(body.state)
              THEN IF Truthy(body.mm)
                     THEN IF body.mm.t # "obj"
                            THEN /\ Caught("AttributeError")
                                 /\ UNCHANGED <<measurements_json, mwrites, success>>
                            ELSE /\ Returned
                                 /\ measurements_json' = FileObj(ProcessMeasurements(body.mm.d))
                                 /\ mwrites' = mwrites + 1
                                 /\ success' = "true"
                     ELSE /\ Returned /\ success' = "false"
                          /\ UNCHANGED <<measurements_json, mwrites>>
              ELSE /\ Returned /\ success' = "false"
                   /\ UNCHANGED <<measurements_json, mwrites>>
  /\ UNCHANGED <<world, avatar_json, writes, loaded, remote, action, avatar_id, idx>>


\* ---------------------------------------------------------------- runs
\* The operator starts the script again: the disk and the service keep what
\* the earlier run left, everything in memory starts over.
NextRun ==
  /\ pc = "exit"
  /\ run < MaxRuns
  /\ run' = run + 1
  /\ avatar_json0' = avatar_json
  /\ measurements_json0' = measurements_json
  /\ pc' = "import" /\ retval' = "running" /\ printed_error' = "none"
  /\ warned' = FALSE /\ subjects' = <<>> /\ avatar_data' = EmptyDict
  /\ image_files' = <<>> /\ has_avatar_id' = FALSE /\ valid_choices' = {}
  /\ action' = 0 /\ avatar_id' = -1 /\ idx' = 0 /\ calls' = <<>>
  /\ reads' = 0 /\ writes' = 0 /\ mwrites' = 0 /\ success' = "none"
  /\ UNCHANGED <<env_ok, dir, avatar_json, measurements_json, remote>>

\* ------------------------------------------------- the service's answers
Name_weight_cap == <<"W","e","i","g","h","t">>
Name_height == <<"h","e","i","g","h","t">>

\* A measurement map as the service sends it: weight 70.004, height 170.0.
SampleMap == (S_weight :> JNum(70004)) @@ (Name_height :> JNum(170000))

StateInputs == {"READY", "PROCESSING", "ready", "absent"}

\* The answers to the GET in the workflow specification.
Bodies ==
  [state : StateInputs,
   mm : {Absent, FileObj(EmptyDict), FileObj(SampleMap), JStr(<<"x">>)}]

\* The measurement values of the download specification: numbers with more
\* than two decimals and with none (none of them half-way between two
\* hundredths, where the binary value decides), and values that are no numbers
\* in JSON.
ValueInputs ==
  {JNum(70004), JNum(170000), JNum(99996), JNum(12346), JBool(TRUE),
   JStr(<<"x">>), JNull}

NameInputs == {S_weight, Name_weight_cap, Name_height}

\* Every measurement map over these names and values.
MapInputs == UNION {[D -> ValueInputs] : D \in SUBSET NameInputs}

\* The answers to the GET in the download specification.
WideBodies ==
  [state : StateInputs,
   mm : {Absent, JNull, JStr(<<"x">>)} \cup {FileObj(m) : m \in MapInputs}]

\* The gender strings of the loader specification: every string of up to
\* MaxGenderLen of these characters, and the longer names in several cases.
GenderAlphabet == {"m", "M", "a", "l", "e", "E", " "}
GenderStrings ==
  UNION {[1..k -> GenderAlphabet] : k \in 0..MaxGenderLen}
  \cup {S_female, Str_FEMALE, <<"F","e","m","a","l","e">>, S_neutral,
        <<"N","E","U","T","R","A","L">>, <<"N","e","u","t","r","a","l">>,
        Str_neutral_padded, Str_other, <<"m","a","l","e"," ">>}
WideGenderInputs == {Absent, JNull, JNum(1000)} \cup {JStr(g) : g \in GenderStrings}

\* ------------------------------------------------------- specifications
Next ==
  \/ ModuleInit
  \/ GetAvailableSubjects
  \/ SelectSubject
  \/ LoadSubjectData
  \/ SelectAction
  \/ Authenticate
  \/ DownloadMeasurements(Bodies)
  \/ CreateAvatar
  \/ UploadImagesLoop
  \/ RequestUploadSlot
  \/ PutImage
  \/ StartFitting
  \/ NextRun

\* The whole workflow, run after run.
Spec == Init /\ [][Next]_vars


\* The subject loader alone, from every subject file of WideGenderInputs: the
\* script stands before load_subject_data, the subject listed and selected.
InitLoad ==
  /\ env_ok = TRUE
  /\ avatar_json \in {[t |-> "malformed"]}
       \cup {FileObj(MkMeta(g, i)) : g \in WideGenderInputs, i \in {Absent, JId(0)}}
  /\ measurements_json = FileAbsent
  /\ dir = [jpg |-> MaxPerExt, jpeg |-> 1, png |-> 0]
  /\ remote = [i \in 0..MaxRuns |-> IF i = 0 THEN "FITTING_STARTED" ELSE "NONE"]
  /\ run = 1
  /\ avatar_json0 = avatar_json
  /\ measurements_json0 = measurements_json
  /\ pc = "load" /\ retval = "running" /\ printed_error = "none"
  /\ warned = FALSE /\ subjects = <<"subject">> /\ avatar_data = EmptyDict
  /\ image_files = <<>> /\ has_avatar_id = FALSE /\ valid_choices = {}
  /\ action = 0 /\ avatar_id = -1 /\ idx = 0 /\ calls = <<>>
  /\ reads = 0 /\ writes = 0 /\ mwrites = 0 /\ success = "none"

NextLoad == LoadSubjectData

SpecLoad == InitLoad /\ [][NextLoad]_vars

\* The measurement downloader alone, against every answer of WideBodies: the
\* script stands before download_measurements, authenticated, the subject's
\* stored avatar id 0 in hand and action 1 chosen.
InitDownload ==
  /\ env_ok = TRUE
  /\ avatar_json = FileObj(MkMeta(JStr(S_male), JId(0)))
  /\ measurements_json = FileAbsent
  /\ dir = [jpg |-> 1, jpeg |-> 0, png |-> 0]
  /\ remote = [i \in 0..MaxRuns |-> IF i = 0 THEN "FITTING_STARTED" ELSE "NONE"]
  /\ run = 1
  /\ avatar_json0 = avatar_json
  /\ measurements_json0 = measurements_json
  /\ pc = "get" /\ retval = "running" /\ printed_error = "none"
  /\ warned = FALSE /\ subjects = <<"subject">>
  /\ avatar_data = MkMeta(JStr(S_male), JId(0))
  /\ image_files = FindImages(dir) /\ has_avatar_id = TRUE
  /\ valid_choices = MenuChoices(TRUE)
  /\ action = 1 /\ avatar_id = 0 /\ idx = 0
  /\ calls = <<Call("auth", -1, NoImage, "ok", EmptyDict)>>
  /\ reads = 1 /\ writes = 0 /\ mwrites = 0 /\ success = "none"

NextDownload == DownloadMeasurements(WideBodies)

SpecDownload == InitDownload /\ [][NextDownload]_vars


\* ================================================================ claims
\* The positions of this run's calls of one kind.
CallIdx(op) == {k \in DOMAIN calls : calls[k].op = op}

\* Call k is an accepted request of kind op.
OkCall(k, op) == calls[k].op = op /\ calls[k].r = "ok"

CreatedOk == \E k \in DOMAIN calls : OkCall(k, "create")
LastFailed == Len(calls) > 0 /\ calls[Len(calls)].r # "ok"

\* ---------------------------------------------------------------- C1
C1_Moves ==
  {<<"NONE", "CREATED">>, <<"CREATED", "IMAGES_UPLOADED">>,
   <<"IMAGES_UPLOADED", "FITTING_STARTED">>}

\* Image i was given a slot and then its bytes were accepted, both before call k.
C1_Uploaded(i, k) ==
  \E a, b \in 1..(k - 1) :
    /\ a < b
    /\ OkCall(a, "slot") /\ calls[a].img = image_files[i]
    /\ OkCall(b, "put") /\ calls[b].img = image_files[i]

C1_Calls ==
  /\ \A k \in DOMAIN calls :
       /\ calls[k].op \in {"slot", "put"} => \E c \in 1..(k - 1) : OkCall(c, "create")
       /\ calls[k].op = "fit" =>
            /\ \E c \in 1..(k - 1) : OkCall(c, "create")
            /\ \A i \in DOMAIN image_files : C1_Uploaded(i, k)
  /\ (remote[run] = "NONE") <=> ~CreatedOk
  /\ remote[run] \in {"IMAGES_UPLOADED", "FITTING_STARTED"} =>
       \A i \in DOMAIN image_files : C1_Uploaded(i, Len(calls) + 1)
  /\ (remote[run] = "FITTING_STARTED") <=> (\E k \in DOMAIN calls : OkCall(k, "fit"))

\* C1: the avatar of a run only moves NONE -> CREATED -> IMAGES_UPLOADED ->
\* FITTING_STARTED, one state at a time; the fitting request is sent only after
\* the creation and, for every selected image, its slot request and its PUT were
\* accepted, and no image request is sent before the creation was accepted.
C1_UploadOrder ==
  /\ []C1_Calls
  /\ [][\A i \in DOMAIN remote :
          remote'[i] # remote[i] => <<remote[i], remote'[i]>> \in C1_Moves]_vars

C1_Witness ==
  /\ Len(image_files) >= 2
  /\ remote[run] = "FITTING_STARTED"
  /\ \E k \in DOMAIN calls : OkCall(k, "fit")

\* ---------------------------------------------------------------- C2
\* C2: from the moment the creation was accepted (so before the first slot
\* request or PUT, and still after any later failure) avatar.json holds the id of
\* the avatar this run created, written once, and nothing rolls it back.
C2_IdSavedBeforeImages ==
  /\ CreatedOk =>
       /\ avatar_json.t = "obj"
       /\ "avatar_id" \in DOMAIN avatar_json.d
       /\ avatar_json.d["avatar_id"] = JId(NewAvatarId)
       /\ avatar_json # avatar_json0
       /\ avatar_id = NewAvatarId
       /\ writes = 1
  /\ \A k \in DOMAIN calls : calls[k].op \in {"slot", "put", "fit"} => CreatedOk

C2_Witness ==
  /\ pc = "exit" /\ retval = "1"
  /\ LastFailed /\ calls[Len(calls)].op = "put"
  /\ avatar_json.t = "obj" /\ "avatar_id" \in DOMAIN avatar_json.d
  /\ avatar_json.d["avatar_id"] = JId(run)

\* ---------------------------------------------------------------- C3
\* C3: only the last call of a run can have failed, and a failed call ends the
\* run with return 1; avatar creation, fitting and, per image, the slot request
\* and the PUT are each requested at most once, and the calls are the workflow's
\* own (nothing undoes an upload).
C3_AbortOnFirstFailure ==
  /\ \A k \in 1..(Len(calls) - 1) : calls[k].r = "ok"
  /\ LastFailed => pc = "exit" /\ retval = "1"
  /\ \A op \in {"auth", "create", "fit", "get"} : Cardinality(CallIdx(op)) <= 1
  /\ \A op \in {"slot", "put"} : \A k1, k2 \in CallIdx(op) :
       calls[k1].img = calls[k2].img => k1 = k2
  /\ \A k \in DOMAIN calls : calls[k].op \in {"auth", "create", "slot", "put", "fit", "get"}

C3_Witness ==
  /\ pc = "exit" /\ retval = "1"
  /\ LastFailed /\ calls[Len(calls)].op = "slot"
  /\ \E k \in DOMAIN calls : OkCall(k, "put")

\* ---------------------------------------------------------------- C4
\* The answer to GET number k is READY with a measurement map that has entries.
C4_ReadyWithMeasurements(k) ==
  /\ calls[k].r = "ok"
  /\ calls[k].resp.state = "READY"
  /\ calls[k].resp.mm.t = "obj"
  /\ DOMAIN calls[k].resp.mm.d # {}

\* C4: a download issues one GET; it returns success exactly when the answer is
\* READY with a non-empty measurement map, and measurements.json is written
\* exactly when it returns success, otherwise left as it was.
C4_DownloadOnlyWhenReady ==
  /\ Cardinality(CallIdx("get")) <= 1
  /\ (CallIdx("get") = {}) => success = "none" /\ mwrites = 0
  /\ \A k \in CallIdx("get") :
       /\ (success = "true") <=> C4_ReadyWithMeasurements(k)
       /\ (mwrites = 1) <=> (success = "true")
       /\ mwrites <= 1
       /\ success # "true" => measurements_json = measurements_json0
       /\ (calls[k].r = "ok" /\ calls[k].resp.state # "READY") => success = "false"
       /\ pc = "exit"

C4_Witness ==
  /\ success = "false" /\ mwrites = 0 /\ measurements_json = FileAbsent
  /\ \E k \in CallIdx("get") :
       /\ calls[k].r = "ok"
       /\ calls[k].resp.state = "PROCESSING"
       /\ calls[k].resp.mm = FileObj(SampleMap)

\* ---------------------------------------------------------------- C5
\* avatar.json, as this run found it, holds an avatar id.
HasStoredId == avatar_json0.t = "obj" /\ "avatar_id" \in DOMAIN avatar_json0.d

\* C5: the menu is {1, 2} with a stored avatar id and {1} without, whatever the
\* service holds for that id; the chosen action is in the menu; a download is
\* dispatched only for action 1 and names the stored id, an upload otherwise,
\* and without a stored id no download is ever dispatched.
C5_MenuByAvatarId ==
  /\ pc = "menu" => valid_choices # {}
  /\ valid_choices # {} => valid_choices = (IF HasStoredId THEN {1, 2} ELSE {1})
  /\ action # 0 => action \in valid_choices
  /\ \A k \in CallIdx("get") :
       HasStoredId /\ action = 1 /\ calls[k].id = avatar_json0.d["avatar_id"].n
  /\ CallIdx("create") # {} => ~(HasStoredId /\ action = 1)
  /\ ~HasStoredId => CallIdx("get") = {}

C5_Witness ==
  /\ pc = "menu" /\ valid_choices = {1, 2}
  /\ HasStoredId
  /\ remote[avatar_json0.d["avatar_id"].n] = "CREATED"

\* ---------------------------------------------------------------- C6
\* The run read a subject file that is no JSON.
BadSubjectFile == reads = 1 /\ avatar_json0.t = "malformed"

\* C6 as claimed: every fatal error, the missing credentials included, ends the
\* run in the top-level handler, printed with the marker, return 1.
C6_AllFatalCaught ==
  (pc = "exit" /\ (~env_ok \/ BadSubjectFile \/ LastFailed)) =>
    (retval = "1" /\ printed_error # "none")

\* C6, amended: a malformed subject file and a failed remote call end the run in
\* main's handler (marker printed, return 1) and are not retried; missing
\* credentials end it before main is called, by an exception no handler catches:
\* no marker, no return 1, nothing read and nothing requested.
C6_FatalErrorsInMainCaught ==
  /\ (BadSubjectFile \/ LastFailed) =>
       (pc = "exit" /\ retval = "1" /\ printed_error # "none")
  /\ ~env_ok => pc \in {"import", "exit"}
  /\ (pc = "exit" /\ ~env_ok) =>
       (retval = "uncaught" /\ printed_error = "none" /\ reads = 0 /\ calls = <<>>)
  /\ \A k \in 1..(Len(calls) - 1) : calls[k].r = "ok"
  /\ (retval = "1") <=> (printed_error # "none")

C6_Witness == pc = "exit" /\ retval = "1" /\ printed_error = "JSONDecodeError"


\* ---------------------------------------------------------------- C7
\* Two characters are the same letter, whatever their case.
SameLetter(x, y) ==
  \/ x = y
  \/ x \in DOMAIN UpperToLower /\ UpperToLower[x] = y
  \/ y \in DOMAIN UpperToLower /\ UpperToLower[y] = x

EqIgnoreCase(a, b) == Len(a) = Len(b) /\ \A i \in 1..Len(a) : SameLetter(a[i], b[i])

\* The gender the subject file holds (Absent: the key is missing).
RawGender ==
  IF "gender" \in DOMAIN avatar_json0.d THEN avatar_json0.d["gender"] ELSE Absent

\* The valid genders a value matches case-insensitively.
Matching(g) == {v \in valid_genders : g.t = "str" /\ EqIgnoreCase(g.s, v)}

\* C7 as claimed: the load never aborts on the gender; a value matching a valid
\* gender case-insensitively becomes its lower-case form, any other or missing
\* value becomes "neutral" with a warning.
C7_AlwaysNormalizedWithWarning ==
  (pc # "load" /\ avatar_json0.t = "obj") =>
    /\ pc = "menu"
    /\ avatar_data["gender"].s \in valid_genders
    /\ IF Matching(RawGender) # {}
         THEN avatar_data["gender"] = JStr(CHOOSE v \in Matching(RawGender) : TRUE)
         ELSE avatar_data["gender"] = JStr(S_neutral) /\ warned

\* C7, amended: a string matching a valid gender case-insensitively becomes its
\* lower-case form, silently; any other string becomes "neutral" with a
\* warning; a missing gender becomes "neutral" with no warning; a gender that is
\* no string aborts the load (AttributeError, caught by main, return 1).
C7_GenderNormalized ==
  (pc # "load" /\ avatar_json0.t = "obj") =>
    IF RawGender = Absent
      THEN pc = "menu" /\ avatar_data["gender"] = JStr(S_neutral) /\ ~warned
    ELSE IF RawGender.t # "str"
      THEN /\ pc = "exit" /\ retval = "1" /\ printed_error = "AttributeError"
           /\ avatar_data = EmptyDict
    ELSE IF Matching(RawGender) # {}
      THEN /\ pc = "menu" /\ ~warned
           /\ avatar_data["gender"] = JStr(CHOOSE v \in Matching(RawGender) : TRUE)
      ELSE pc = "menu" /\ avatar_data["gender"] = JStr(S_neutral) /\ warned

C7_Witness ==
  /\ pc = "menu" /\ avatar_json0.t = "obj" /\ RawGender = Absent
  /\ avatar_data["gender"] = JStr(S_neutral) /\ ~warned

\* ---------------------------------------------------------------- C8
NImages == dir.jpg + dir.jpeg + dir.png

\* The image files in list order: the jpg, then the jpeg, then the png.
Listing == Glob(dir, "jpg") \o Glob(dir, "jpeg") \o Glob(dir, "png")

IsSlot(c) == c.op = "slot"
IsPut(c) == c.op = "put"

\* The calls of one kind name the selected images in list order, each once.
C8_InListOrder(cs) ==
  /\ Len(cs) <= Len(image_files)
  /\ \A j \in DOMAIN cs : cs[j].img = image_files[j]

\* C8: of n image files the first min(n, 4) in list order are selected; slot
\* requests and PUTs name the selected images in list order, each once, and no
\* call names an image beyond the fourth; when the fitting request is sent every
\* selected image was uploaded; with no image the run goes from the creation
\* straight to the fitting request.
C8_AtMostFourImages ==
  valid_choices # {} =>
    /\ Len(image_files) = (IF NImages < 4 THEN NImages ELSE 4)
    /\ \A i \in DOMAIN image_files : image_files[i] = Listing[i]
    /\ C8_InListOrder(SelectSeq(calls, IsSlot))
    /\ C8_InListOrder(SelectSeq(calls, IsPut))
    /\ \A k \in DOMAIN calls : calls[k].img # NoImage =>
         \E i \in 1..4 : i <= NImages /\ calls[k].img = Listing[i]
    /\ CallIdx("fit") # {} =>
         /\ Len(SelectSeq(calls, IsPut)) = Len(image_files)
         /\ \A k \in CallIdx("put") : calls[k].r = "ok"
    /\ (NImages = 0 /\ CreatedOk) =>
         /\ CallIdx("slot") = {} /\ CallIdx("put") = {}
         /\ pc \in {"images", "fit", "exit"}
         /\ pc = "exit" => CallIdx("fit") # {}

C8_Witness ==
  /\ NImages >= 5
  /\ \E k \in DOMAIN calls : OkCall(k, "fit")
  /\ Len(SelectSeq(calls, IsPut)) = 4

\* A run with no image at all that got the fitting request accepted.
C8_WitnessNoImage ==
  /\ NImages = 0
  /\ \E k \in DOMAIN calls : OkCall(k, "fit")
  /\ retval = "none"

\* ---------------------------------------------------------------- C9
\* k is m rounded to two decimals (both in thousandths).
IsRounded(k, m) == k % 10 = 0 /\ m - k <= 5 /\ k - m <= 5

\* k is m * 2.20462 rounded to two decimals: 100000 * (1000 * m * 2.20462 - k)
\* within half a hundredth, computed in two halves to stay within 32 bits.
IsLbsOf(k, m) ==
  /\ k % 10 = 0
  /\ LET E == m * 220 - (k \div 10) * 1000
     IN  /\ E > -1000000 /\ E < 1000000
         /\ 1000 * E + m * 462 >= -500000
         /\ 1000 * E + m * 462 <= 500000

\* k is m / 2.54 rounded to two decimals.
IsInchesOf(k, m) ==
  /\ k % 10 = 0
  /\ 2 * (m * 10 - (k \div 10) * 254) <= 254
  /\ 2 * (m * 10 - (k \div 10) * 254) >= -254

\* What the service sent and what was written.
RawMeasurements == calls[Len(calls)].resp.mm.d
Written == measurements_json.d

\* C9 as claimed, read generously (kg and cm may be the value received or the
\* rounded value written; a boolean may count as a number or not): the numeric
\* value named exactly "weight" becomes {kg, lbs}, every other number {cm, in}.
C9_WeightByExactName ==
  mwrites = 1 =>
    /\ DOMAIN Written = DOMAIN RawMeasurements
    /\ \A name \in DOMAIN RawMeasurements :
         LET v == RawMeasurements[name]
             o == Written[name]
         IN  IF v.t = "num"
               THEN /\ o.t = "obj"
                    /\ IF name = S_weight
                         THEN /\ DOMAIN o.d = {"kg", "lbs"}
                              /\ \/ IsLbsOf(o.d.lbs.m, v.m)
                                 \/ IsLbsOf(o.d.lbs.m, o.d.kg.m)
                         ELSE /\ DOMAIN o.d = {"cm", "in"}
                              /\ \/ IsInchesOf(o.d.in.m, v.m)
                                 \/ IsInchesOf(o.d.in.m, o.d.cm.m)
               ELSE v.t = "bool" \/ o = v

\* C9, amended: the output has exactly the keys received; a number (a JSON
\* boolean counts as 1 or 0) whose name is "weight" in any case becomes
\* {kg, lbs}, every other number {cm, in}, with kg and cm the value rounded to
\* two decimals and lbs and in computed from the value as received, not from
\* the rounded one; anything else is written as received.
C9_UnitConversion ==
  mwrites = 1 =>
    /\ DOMAIN Written = DOMAIN RawMeasurements
    /\ \A name \in DOMAIN RawMeasurements :
         LET v == RawMeasurements[name]
             o == Written[name]
             m == IF v.t = "bool" THEN (IF v.b THEN 1000 ELSE 0) ELSE v.m
         IN  IF v.t \in {"num", "bool"}
               THEN /\ o.t = "obj"
                    /\ IF EqIgnoreCase(name, S_weight)
                         THEN /\ DOMAIN o.d = {"kg", "lbs"}
                              /\ IsRounded(o.d.kg.m, m)
                              /\ IsLbsOf(o.d.lbs.m, m)
                         ELSE /\ DOMAIN o.d = {"cm", "in"}
                              /\ IsRounded(o.d.cm.m, m)
                              /\ IsInchesOf(o.d.in.m, m)
               ELSE o = v

C9_Witness ==
  /\ mwrites = 1
  /\ Name_weight_cap \in DOMAIN RawMeasurements
  /\ RawMeasurements[Name_weight_cap] = JNum(70004)
  /\ Written[Name_weight_cap] = FileObj([kg |-> JNum(70000), lbs |-> JNum(154330)])
  /\ Name_height \in DOMAIN RawMeasurements
  /\ RawMeasurements[Name_height] = JNum(170000)
  /\ Written[Name_height] = FileObj([cm |-> JNum(170000), in |-> JNum(66930)])

\* --------------------------------------------------------------- C10
\* C10: in a run avatar.json is read once, by the loader, and written at most
\* once, exactly when the creation was accepted; without that (a download, or a
\* failure up to and including the creation) it stays as the run found it; a run
\* that uploads never writes measurements.json, a run that downloads never
\* writes avatar.json.
C10_FileFrame ==
  /\ reads <= 1 /\ writes <= 1
  /\ pc \in {"import", "scan", "select", "load"} => reads = 0
  /\ pc \in {"menu", "auth", "get", "create", "images", "slot", "put", "fit"} => reads = 1
  /\ (writes = 1) <=> CreatedOk
  /\ writes = 0 => avatar_json = avatar_json0
  /\ CallIdx("get") # {} => writes = 0 /\ avatar_json = avatar_json0
  /\ CallIdx("create") # {} => mwrites = 0 /\ measurements_json = measurements_json0
  /\ pc \in {"create", "images", "slot", "put", "fit"} =>
       mwrites = 0 /\ measurements_json = measurements_json0

C10_Witness ==
  /\ pc = "exit" /\ run >= 2
  /\ measurements_json0.t = "obj"
  /\ measurements_json = measurements_json0
  /\ writes = 1

====
